---- MODULE Spec2Model ----
(***************************************************************************)
(* Model of src/main.py: a Flask gateway in front of the PokeAPI catalog.  *)
(* One requester (one browser session) sends requests one after another;   *)
(* every route handler is one atomic action that leaves its response, with *)
(* the request it answers, in `last`; `deliver` hands the response to the  *)
(* browser, after which the next request can come.  The identity provider  *)
(* and the upstream catalog are oracles: their answer is chosen when the   *)
(* handler calls them.                                                     *)
(*                                                                         *)
(* Strings that the code inspects (emails, the allow-list variable, query  *)
(* parameters, member names) are sequences of one-character strings, so    *)
(* that split, lower, len and equality are computed as Python computes     *)
(* them.  Python's None is the one-element sequence <<"None">>, which is   *)
(* no string over Chars.  A dict is a function whose DOMAIN is its key set.*)
(*                                                                         *)
(* Not modelled: the keys authlib keeps in the session for the OAuth state *)
(* and flask-login's "_fresh"/"_id" bookkeeping keys (they never decide a  *)
(* response here), and userinfo answers that are JSON but not an object.   *)
(***************************************************************************)
EXTENDS Integers, Sequences, FiniteSets, TLC

VARIABLES EMAILS_PERMITIDOS, session, last, loggedOut

vars == <<EMAILS_PERMITIDOS, session, last, loggedOut>>

(***************************************************************************)
(* Bounds                                                                  *)
(***************************************************************************)
MaxEnvLen == 2       \* longest EMAILS_PERMITIDOS string tried
MaxMembers == 2      \* longest upstream list (types / pokemon) tried

(***************************************************************************)
(* Strings                                                                 *)
(***************************************************************************)
Chars == {"a", "A", ","}
EnvChars == Chars             \* characters of the EMAILS_PERMITIDOS strings tried
None == <<"None">>
EmptyDict == [k \in {} |-> None]

StrUpTo(n) == UNION {[1..k -> EnvChars] : k \in 0..n}

\* str.lower()
lower(s) == [i \in 1..Len(s) |-> IF s[i] = "A" THEN "a" ELSE s[i]]

\* str.split(sep): always at least one piece, "" gives [""]
RECURSIVE split(_, _)
split(s, sep) ==
    IF \A i \in 1..Len(s) : s[i] # sep
    THEN <<s>>
    ELSE LET i == CHOOSE k \in 1..Len(s) :
                      s[k] = sep /\ \A j \in 1..(k - 1) : s[j] # sep
         IN  <<SubSeq(s, 1, i - 1)>> \o split(SubSeq(s, i + 1, Len(s)), sep)

\* os.getenv(key, default)
getenv(environ, key, default) ==
    IF key \in DOMAIN environ THEN environ[key] ELSE default

\* mutant of In: a case-insensitive membership test
InIgnoreCase(x, list) == \E i \in 1..Len(list) : lower(list[i]) = lower(x)

\* x in list
In(x, list) == \E i \in 1..Len(list) : list[i] = x

\* mutant of Truthy: only a missing parameter counts, "" passes
IsNotNone(s) == s # None

\* Python truthiness of an optional string: None and "" are falsy
Truthy(s) == s # None /\ s # <<>>

(***************************************************************************)
(* Configuration: the process environment at start-up                      *)
(***************************************************************************)
Environs == {EmptyDict} \cup
            {[k \in {"EMAILS_PERMITIDOS"} |-> s] : s \in StrUpTo(MaxEnvLen)}

load_allow_list(environ) == split(getenv(environ, "EMAILS_PERMITIDOS", <<>>), <<",">>[1])

(***************************************************************************)
(* Identity provider answers (callback inputs)                             *)
(***************************************************************************)
Subs == {<<"u", "1">>, <<"u", "2">>}
Names == {<<"n">>}
Emails == {None, <<>>, <<"a">>, <<"A">>}

ClaimValues(k) == IF k = "sub" THEN Subs ELSE IF k = "name" THEN Names ELSE Emails

\* the userinfo JSON object: any subset of the three claims
UserInfos == UNION {{f \in [K -> Subs \cup Names \cup Emails] :
                        \A k \in K : f[k] \in ClaimValues(k)} :
                    K \in SUBSET {"sub", "name", "email"}}

ProviderAnswers ==
    {[fault |-> "token", user_info |-> EmptyDict],
     [fault |-> "userinfo", user_info |-> EmptyDict]} \cup
    {[fault |-> "none", user_info |-> u] : u \in UserInfos}

NoProvider == [fault |-> "unused", user_info |-> EmptyDict]

(***************************************************************************)
(* Responses                                                               *)
(***************************************************************************)
Response(status, body, location, calls) ==
    [status |-> status, body |-> body, location |-> location, calls |-> calls]

redirect(location) == Response(302, [text |-> ""], location, <<>>)
abort(code) == Response(code, [text |-> "abort"], "", <<>>)
jsonify(body, status, calls) == Response(status, body, "", calls)

\* the request being answered (route, query parameter, provider answer, the
\* session it arrived with) together with its response
Record(route, arg, provider, before, r) ==
    [route |-> route, arg |-> arg, provider |-> provider, before |-> before,
     status |-> r.status, body |-> r.body, location |-> r.location,
     calls |-> r.calls]

(***************************************************************************)
(* Authentication: /callback, /logout, /dashboard                          *)
(***************************************************************************)
HasClaims(u) == {"sub", "name", "email"} \subseteq DOMAIN u

\* session.clear()
clear(s) == EmptyDict

\* dict item assignment d[k] = v
SetItem(d, k, v) == [x \in DOMAIN d \cup {k} |-> IF x = k THEN v ELSE d[x]]

\* mutant of callback_session: an existing user record is kept, not overwritten
callback_session_keep(s, p) ==
    IF p.fault # "none" \/ "user" \in DOMAIN s
    THEN s
    ELSE LET s1 == SetItem(s, "user", p.user_info)
         IN  IF ~HasClaims(p.user_info)
             THEN s1
             ELSE SetItem(s1, "_user_id", p.user_info["sub"])

\* the session after the try-block of callback() ran on provider answer p
callback_session(s, p) ==
    IF p.fault # "none"
    THEN s                                        \* line 83 or 84 raised
    ELSE LET s1 == SetItem(s, "user", p.user_info)    \* line 85
         IN  IF ~HasClaims(p.user_info)
             THEN s1                              \* line 86 raised KeyError
             ELSE SetItem(s1, "_user_id", p.user_info["sub"])  \* login_user

callback_response(p) ==
    IF p.fault = "none" /\ HasClaims(p.user_info)
    THEN redirect("/dashboard")
    ELSE jsonify([error |-> "Error en el proceso de autenticacion"], 500, <<>>)

\* flask-login's user_loader callback: "user", "none" or "raise" (KeyError)
load_user(s, user_id) ==
    IF "user" \in DOMAIN s /\ s["user"] # EmptyDict
    THEN IF {"name", "email"} \subseteq DOMAIN s["user"] THEN "user" ELSE "raise"
    ELSE "none"

\* flask-login: current_user is looked up from session["_user_id"]
current_user(s) ==
    IF "_user_id" \in DOMAIN s THEN load_user(s, s["_user_id"]) ELSE "none"

\* LoginManager.unauthorized(): no login_view is configured, so abort(401)
unauthorized == abort(401)

\* @login_required around dashboard()
login_required(s) ==
    CASE current_user(s) = "raise" -> abort(500)     \* unhandled KeyError
      [] current_user(s) = "none" -> unauthorized
      [] OTHER -> jsonify(s["user"], 200, <<>>)

(***************************************************************************)
(* The authorization gate                                                  *)
(***************************************************************************)
\* mutant of decorated_function: the allow-list test is left out
decorated_function_unchecked(s, allow, view) ==
    IF "user" \notin DOMAIN s \/ "email" \notin DOMAIN s["user"]
    THEN {redirect("/login")}
    ELSE view

\* mutant of decorated_function: only the presence of the user record is tested
decorated_function_user_only(s, allow, view) ==
    IF "user" \notin DOMAIN s
    THEN {redirect("/login")}
    ELSE IF "email" \notin DOMAIN s["user"]
         THEN {abort(500)}
         ELSE IF ~In(s["user"]["email"], allow)
              THEN {abort(403)}
              ELSE view

\* mutant of decorated_function: the view's parameter validation answers
\* before the session is looked at
decorated_function_params_first(s, allow, view) ==
    IF \E r \in view : r.status = 400
    THEN view
    ELSE IF "user" \notin DOMAIN s \/ "email" \notin DOMAIN s["user"]
         THEN {redirect("/login")}
         ELSE IF ~In(s["user"]["email"], allow)
              THEN {abort(403)}
              ELSE view

\* view is the set of responses the wrapped view can give; the gate's own
\* responses are the only ones when it does not call the view
decorated_function(s, allow, view) ==
    IF "user" \notin DOMAIN s \/ "email" \notin DOMAIN s["user"]
    THEN {redirect("/login")}
    ELSE IF ~In(s["user"]["email"], allow)
         THEN {abort(403)}
         ELSE view

(***************************************************************************)
(* The upstream catalog                                                    *)
(***************************************************************************)
SeqUpTo(S, n) == UNION {[1..k -> S] : k \in 0..n}

\* request.args.get(...): missing, empty, or a mixed-case value
Args == {None, <<>>, <<"a">>, <<"A">>}

Labels == {<<"f">>, <<"w">>}
TypeEntries == {[slot |-> <<"1">>, type |-> [name |-> l]] : l \in Labels} \cup
               {[slot |-> <<"1">>], [slot |-> <<"1">>, type |-> [url |-> <<"x">>]]}

MemberNames == {<<"a", "a">>, <<"b", "b">>, <<"c">>}
MemberRefs == {[name |-> n, url |-> <<"x">> \o n] : n \in MemberNames} \cup
              {[url |-> <<"x">>]}
MemberEntries == {[slot |-> <<"1">>, pokemon |-> m] : m \in MemberRefs} \cup
                 {[slot |-> <<"1">>]}

Answer(raises, status_code, is_json, data) ==
    [raises |-> raises, status_code |-> status_code, is_json |-> is_json, data |-> data]

NetworkError == Answer(TRUE, 0, FALSE, EmptyDict)

AnswersWith(datas) ==
    {NetworkError} \cup
    {Answer(FALSE, c, FALSE, EmptyDict) : c \in {404, 500}} \cup
    {Answer(FALSE, 200, FALSE, EmptyDict)} \cup
    {Answer(FALSE, 200, TRUE, d) : d \in datas}

EntityAnswers ==
    AnswersWith({EmptyDict} \cup {[types |-> l] : l \in SeqUpTo(TypeEntries, MaxMembers)})

CategoryAnswers ==
    AnswersWith({EmptyDict} \cup {[pokemon |-> l] : l \in SeqUpTo(MemberEntries, MaxMembers)})

\* dict.get(key, [])
get(d, key) == IF key \in DOMAIN d THEN d[key] ELSE <<>>

\* mutant of Call: a request that raised is sent a second time
Call_retried(path, key, up) ==
    IF up.raises
    THEN <<[path |-> path, key |-> key, answer |-> up],
           [path |-> path, key |-> key, answer |-> up]>>
    ELSE <<[path |-> path, key |-> key, answer |-> up]>>

\* requests.get(f"{base}/{path}/{key}")
Call(path, key, up) == <<[path |-> path, key |-> key, answer |-> up]>>

InternalError(calls) == jsonify([error |-> "Error interno del servidor"], 500, calls)

(***************************************************************************)
(* The three protected views                                               *)
(***************************************************************************)
\* mutant of pokemon_type_fetched: the name is echoed lower-cased and
\* repeated labels are dropped
pokemon_type_fetched_normalised(name, up) ==
    LET calls == Call("pokemon", lower(name), up)
        entries == get(up.data, "types")
    IN  CASE up.raises -> InternalError(calls)
          [] ~up.raises /\ up.status_code # 200 ->
                 jsonify([error |-> "Pokemon no encontrado"], 404, calls)
          [] ~up.raises /\ up.status_code = 200 /\ ~up.is_json -> InternalError(calls)
          [] OTHER ->
                 IF \E i \in 1..Len(entries) :
                        \/ "type" \notin DOMAIN entries[i]
                        \/ "name" \notin DOMAIN entries[i]["type"]
                 THEN InternalError(calls)
                 ELSE jsonify([name |-> lower(name),
                               types |-> SelectSeq([i \in 1..Len(entries) |->
                                                        entries[i]["type"]["name"]],
                                                   LAMBDA l : \A j \in 1..Len(entries) :
                                                       entries[j]["type"]["name"] = l)],
                              200, calls)

\* what the view does once requests.get answered with up
pokemon_type_fetched(name, up) ==
    LET calls == Call("pokemon", lower(name), up)
        entries == get(up.data, "types")
    IN  CASE up.raises -> InternalError(calls)
          [] ~up.raises /\ up.status_code # 200 ->
                 jsonify([error |-> "Pokemon no encontrado"], 404, calls)
          [] ~up.raises /\ up.status_code = 200 /\ ~up.is_json -> InternalError(calls)
          [] OTHER ->
                 IF \E i \in 1..Len(entries) :
                        \/ "type" \notin DOMAIN entries[i]
                        \/ "name" \notin DOMAIN entries[i]["type"]
                 THEN InternalError(calls)
                 ELSE jsonify([name |-> name,
                               types |-> [i \in 1..Len(entries) |->
                                              entries[i]["type"]["name"]]],
                              200, calls)

\* the set of responses the view can give: one per answer of the upstream
get_pokemon_type_view(name) ==
    IF ~Truthy(name)
    THEN {jsonify([error |-> "Falta el parametro 'name'"], 400, <<>>)}
    ELSE {pokemon_type_fetched(name, up) : up \in EntityAnswers}

\* mutant of choice: always the first element
choice_first(seq, r) == seq[1]

\* random.choice(seq) with r the value drawn from the random source
choice(seq, r) == seq[(r % Len(seq)) + 1]

\* mutant of max_by_name_len: the last element of maximal key
max_by_name_len_last(seq) ==
    seq[CHOOSE i \in 1..Len(seq) :
            /\ \A j \in 1..Len(seq) : Len(seq[j]["name"]) <= Len(seq[i]["name"])
            /\ \A j \in (i + 1)..Len(seq) : Len(seq[j]["name"]) < Len(seq[i]["name"])]

\* max(seq, key=lambda x: len(x['name'])): the first element of maximal key
max_by_name_len(seq) ==
    seq[CHOOSE i \in 1..Len(seq) :
            /\ \A j \in 1..Len(seq) : Len(seq[j]["name"]) <= Len(seq[i]["name"])
            /\ \A j \in 1..(i - 1) : Len(seq[j]["name"]) < Len(seq[i]["name"])]

\* [p['pokemon'] for p in data.get('pokemon', [])]
pokemons_of(up) ==
    LET entries == get(up.data, "pokemon")
    IN  [i \in 1..Len(entries) |-> entries[i]["pokemon"]]

\* mutant of category_fetched: only an upstream 404 is reported as not found
category_fetched_only_404(pokemon_type, up) ==
    LET calls == Call("type", lower(pokemon_type), up)
        entries == get(up.data, "pokemon")
    IN  CASE up.raises -> InternalError(calls)
          [] ~up.raises /\ up.status_code = 404 ->
                 jsonify([error |-> "Tipo no encontrado"], 404, calls)
          [] ~up.raises /\ up.status_code # 404 /\ ~up.is_json -> InternalError(calls)
          [] OTHER ->
                 IF \E i \in 1..Len(entries) : "pokemon" \notin DOMAIN entries[i]
                 THEN InternalError(calls)
                 ELSE IF entries = <<>>
                      THEN jsonify([error |-> "No se encontraron Pokemon para este tipo"],
                                   404, calls)
                      ELSE jsonify(EmptyDict, 0, calls)

\* lines 166-175 and 196-204, the fetch shared by random and longest:
\* the response when it ends the request, else "go on" with status 0
category_fetched(pokemon_type, up) ==
    LET calls == Call("type", lower(pokemon_type), up)
        entries == get(up.data, "pokemon")
    IN  CASE up.raises -> InternalError(calls)
          [] ~up.raises /\ up.status_code # 200 ->
                 jsonify([error |-> "Tipo no encontrado"], 404, calls)
          [] ~up.raises /\ up.status_code = 200 /\ ~up.is_json -> InternalError(calls)
          [] OTHER ->
                 IF \E i \in 1..Len(entries) : "pokemon" \notin DOMAIN entries[i]
                 THEN InternalError(calls)
                 ELSE IF pokemons_of(up) = <<>>
                      THEN jsonify([error |-> "No se encontraron Pokemon para este tipo"],
                                   404, calls)
                      ELSE jsonify(EmptyDict, 0, calls)

random_pokemon_fetched(pokemon_type, up, r) ==
    LET early == category_fetched(pokemon_type, up)
        random_pokemon == choice(pokemons_of(up), r)
    IN  IF early.status # 0 THEN early
        ELSE IF "name" \notin DOMAIN random_pokemon     \* line 177 raises
             THEN InternalError(early.calls)
             ELSE jsonify(random_pokemon, 200, early.calls)

get_random_pokemon_by_type_view(pokemon_type) ==
    IF ~Truthy(pokemon_type)
    THEN {jsonify([error |-> "Falta el parametro 'type'"], 400, <<>>)}
    ELSE {random_pokemon_fetched(pokemon_type, up, r) :
              up \in CategoryAnswers, r \in 0..(MaxMembers - 1)}

longest_pokemon_fetched(pokemon_type, up) ==
    LET early == category_fetched(pokemon_type, up)
        pokemons == pokemons_of(up)
    IN  IF early.status # 0 THEN early
        ELSE IF \E i \in 1..Len(pokemons) : "name" \notin DOMAIN pokemons[i]
             THEN InternalError(early.calls)            \* line 206 raises
             ELSE jsonify(max_by_name_len(pokemons), 200, early.calls)

get_longest_name_pokemon_view(pokemon_type) ==
    IF ~Truthy(pokemon_type)
    THEN {jsonify([error |-> "Falta el parametro 'type'"], 400, <<>>)}
    ELSE {longest_pokemon_fetched(pokemon_type, up) : up \in CategoryAnswers}

\* no request is being served
Idle == Record("none", None, NoProvider, EmptyDict, Response(0, [text |-> ""], "", <<>>))

Init ==
    /\ \E environ \in Environs : EMAILS_PERMITIDOS = load_allow_list(environ)
    /\ session = EmptyDict
    /\ last = Idle
    /\ loggedOut = FALSE

callback ==
    /\ last = Idle
    /\ \E p \in ProviderAnswers :
           /\ session' = callback_session(session, p)
           /\ last' = Record("callback", None, p, session, callback_response(p))
           /\ loggedOut' = (loggedOut /\ callback_response(p).status # 302)
    /\ UNCHANGED EMAILS_PERMITIDOS

logout ==
    /\ last = Idle
    /\ session' = clear(session)
    /\ last' = Record("logout", None, NoProvider, session, redirect("auth0/v2/logout"))
    /\ loggedOut' = TRUE
    /\ UNCHANGED EMAILS_PERMITIDOS

home ==
    /\ last = Idle
    /\ last' = Record("home", None, NoProvider, session,
                      Response(200, [text |-> "Bienvenido"], "", <<>>))
    /\ UNCHANGED <<EMAILS_PERMITIDOS, session, loggedOut>>

login ==
    /\ last = Idle
    /\ last' = Record("login", None, NoProvider, session, redirect("auth0/authorize"))
    /\ UNCHANGED <<EMAILS_PERMITIDOS, session, loggedOut>>

\* mutant of dashboard: an unauthenticated visit clears the session
dashboard_clearing ==
    /\ last = Idle
    /\ last' = Record("dashboard", None, NoProvider, session, login_required(session))
    /\ session' = IF login_required(session).status = 200 THEN session ELSE clear(session)
    /\ UNCHANGED <<EMAILS_PERMITIDOS, loggedOut>>

dashboard ==
    /\ last = Idle
    /\ last' = Record("dashboard", None, NoProvider, session, login_required(session))
    /\ UNCHANGED <<EMAILS_PERMITIDOS, session, loggedOut>>

get_pokemon_type ==
    /\ last = Idle
    /\ \E name \in Args :
           \E r \in decorated_function(session, EMAILS_PERMITIDOS, get_pokemon_type_view(name)) :
               last' = Record("type", name, NoProvider, session, r)
    /\ UNCHANGED <<EMAILS_PERMITIDOS, session, loggedOut>>

get_random_pokemon_by_type ==
    /\ last = Idle
    /\ \E pokemon_type \in Args :
           \E r \in decorated_function(session, EMAILS_PERMITIDOS, get_random_pokemon_by_type_view(pokemon_type)) :
               last' = Record("random", pokemon_type, NoProvider, session, r)
    /\ UNCHANGED <<EMAILS_PERMITIDOS, session, loggedOut>>

get_longest_name_pokemon ==
    /\ last = Idle
    /\ \E pokemon_type \in Args :
           \E r \in decorated_function(session, EMAILS_PERMITIDOS, get_longest_name_pokemon_view(pokemon_type)) :
               last' = Record("longest", pokemon_type, NoProvider, session, r)
    /\ UNCHANGED <<EMAILS_PERMITIDOS, session, loggedOut>>

\* the response leaves the server; the request is over
deliver ==
    /\ last # Idle
    /\ last' = Idle
    /\ UNCHANGED <<EMAILS_PERMITIDOS, session, loggedOut>>

Next ==
    \/ deliver
    \/ home
    \/ login
    \/ callback
    \/ dashboard
    \/ logout
    \/ get_pokemon_type
    \/ get_random_pokemon_by_type
    \/ get_longest_name_pokemon

Spec == Init /\ [][Next]_vars

(***************************************************************************)
(* Vocabulary of the properties                                            *)
(***************************************************************************)
Protected == {"type", "random", "longest"}

HasEmailClaim == "user" \in DOMAIN session /\ "email" \in DOMAIN session["user"]

OnAllowList(email) == \E i \in DOMAIN EMAILS_PERMITIDOS : EMAILS_PERMITIDOS[i] = email

Authorized == HasEmailClaim /\ OnAllowList(session["user"]["email"])

RedirectedToLogin == last.status = 302 /\ last.location = "/login"

HandlerOutcome == last.status \in {200, 400, 404, 500}

ParamPresent == last.arg # None /\ last.arg # <<>>

(***************************************************************************)
(* Properties                                                              *)
(***************************************************************************)

\* C1: a protected request of a session whose email is not on the allow-list
\* is answered 403 and makes no upstream call, whatever its parameter.
C1_ForbiddenWithoutUpstream ==
    (last.route \in Protected /\ HasEmailClaim /\ ~OnAllowList(session["user"]["email"]))
        => (last.status = 403 /\ last.calls = <<>>)

\* C1 witness: an email differing from the only entry in case, parameter given.
C1_Witness ==
    /\ last.route = "random" /\ last.arg = <<"A">>
    /\ HasEmailClaim /\ session["user"]["email"] = <<"A">>
    /\ EMAILS_PERMITIDOS = << <<"a">> >>
    /\ last.status = 403

\* C2: a protected request with no user record, or a user record without an
\* email claim, is redirected to the login flow and makes no upstream call.
C2_UnauthenticatedRedirected ==
    (last.route \in Protected /\ ~HasEmailClaim)
        => (RedirectedToLogin /\ last.calls = <<>>)

\* C2 witness: a user record without the email key, parameter given.
C2_Witness ==
    /\ last.route = "longest" /\ last.arg = <<"a">>
    /\ "user" \in DOMAIN session /\ "email" \notin DOMAIN session["user"]
    /\ "name" \in DOMAIN session["user"]
    /\ RedirectedToLogin

\* C3 (as claimed): a session whose email is absent, null or empty never
\* gets past the gate, whatever EMAILS_PERMITIDOS was.
C3_UnpopulatedEmailNeverAllowed ==
    (last.route \in Protected
        /\ (~HasEmailClaim \/ session["user"]["email"] \in {None, <<>>}))
        => ~HandlerOutcome

\* C4: a protected request reaches its view (200, 400, 404 or 500) exactly
\* when the session carries an email equal, character for character, to an
\* allow-list entry; an email equal to an entry only up to case gets 403.
C4_AllowIffExactMember ==
    last.route \in Protected =>
        /\ HandlerOutcome <=> Authorized
        /\ (Authorized => ~RedirectedToLogin /\ last.status # 403)
        /\ (HasEmailClaim
              /\ ~OnAllowList(session["user"]["email"])
              /\ \E i \in DOMAIN EMAILS_PERMITIDOS :
                     lower(EMAILS_PERMITIDOS[i]) = lower(session["user"]["email"]))
             => last.status = 403

\* C4 witness: an upper-case email allowed by an upper-case entry.
C4_Witness ==
    /\ last.route = "type" /\ last.status = 200
    /\ Authorized /\ session["user"]["email"] = <<"A">>
    /\ Len(EMAILS_PERMITIDOS) = 2

\* C5 (as claimed): a callback answered 500 leaves the session as it was.
C5_FailedCallbackKeepsSession ==
    (last.route = "callback" /\ last.status = 500) => session = last.before

\* C6 (as claimed): logout redirects to the provider and empties the session,
\* and from then on protected requests are redirected to login until a
\* callback succeeds.
C6_LogoutThenLoginRequired ==
    /\ last.route = "logout" =>
           (last.status = 302 /\ last.location = "auth0/v2/logout" /\ session = EmptyDict)
    /\ (loggedOut /\ last.route \in Protected) => RedirectedToLogin

\* C7: an authorized protected request whose parameter is missing or empty is
\* answered 400 with the message naming the parameter, without upstream call.
C7_MissingParameter ==
    (last.route \in Protected /\ Authorized /\ ~ParamPresent)
        => /\ last.status = 400
           /\ last.body = [error |-> IF last.route = "type"
                                     THEN "Falta el parametro 'name'"
                                     ELSE "Falta el parametro 'type'"]
           /\ last.calls = <<>>

\* C7 witness: the empty string as parameter of /pokemon/random.
C7_Witness ==
    /\ last.route = "random" /\ last.arg = <<>>
    /\ Authorized /\ last.status = 400

\* C8 (as claimed): /dashboard without a session redirects to /login and
\* with an established session answers 200 with the session's claims.
C8_Dashboard ==
    last.route = "dashboard" =>
        /\ "user" \notin DOMAIN session => RedirectedToLogin
        /\ ("_user_id" \in DOMAIN session /\ "user" \in DOMAIN session
              /\ HasClaims(session["user"]))
             => (last.status = 200 /\ last.body = session["user"])

\* C9: after a successful callback with claims Y the session holds exactly Y
\* (and the login of Y's subject), whatever it held before; the dashboard
\* then shows Y.
C9_CallbackOverwrites ==
    (last.route = "callback" /\ last.status = 302)
        => LET Y == last.provider.user_info
           IN  /\ DOMAIN session = {"user", "_user_id"}
               /\ session["user"] = Y
               /\ session["_user_id"] = Y["sub"]
               /\ login_required(session) = jsonify(Y, 200, <<>>)

\* C9 witness: a second successful callback over a session of other claims.
C9_Witness ==
    /\ last.route = "callback" /\ last.status = 302
    /\ "_user_id" \in DOMAIN last.before
    /\ HasClaims(last.before["user"])
    /\ last.before["_user_id"] # last.provider.user_info["sub"]
    /\ last.before["user"]["email"] # last.provider.user_info["email"]

\* C10: for an authorized request with its parameter, the one upstream call
\* answering any status other than 200 gives 404; random and longest also give
\* 404 on a 200 whose member list is empty.
C10_NonOkIsNotFound ==
    (last.route \in Protected /\ Authorized /\ ParamPresent)
        => /\ Len(last.calls) = 1
           /\ LET a == last.calls[1].answer
              IN  /\ (~a.raises /\ a.status_code # 200) => last.status = 404
                  /\ (last.route # "type" /\ ~a.raises /\ a.status_code = 200
                        /\ a.is_json /\ a.data = [pokemon |-> <<>>])
                       => last.status = 404

\* C10 witness: an upstream 500 on /pokemon/longest reported as 404.
C10_Witness ==
    /\ last.route = "longest" /\ Authorized /\ ParamPresent
    /\ Len(last.calls) = 1 /\ last.calls[1].answer.status_code = 500
    /\ last.status = 404

(***************************************************************************)
(* Vocabulary of the upstream properties                                   *)
(***************************************************************************)
\* the protected request reached its upstream call
Fetched == last.route \in Protected /\ Authorized /\ ParamPresent /\ Len(last.calls) = 1

OkJson(a) == ~a.raises /\ a.status_code = 200 /\ a.is_json

\* the body of an entity has its 'types' list and every entry its type name
EntityShaped(d) ==
    /\ "types" \in DOMAIN d
    /\ \A i \in DOMAIN d["types"] :
           /\ "type" \in DOMAIN d["types"][i]
           /\ "name" \in DOMAIN d["types"][i]["type"]

\* the body of a category has its 'pokemon' list and every entry a named member
CategoryShaped(d) ==
    /\ "pokemon" \in DOMAIN d
    /\ \A i \in DOMAIN d["pokemon"] :
           /\ "pokemon" \in DOMAIN d["pokemon"][i]
           /\ "name" \in DOMAIN d["pokemon"][i]["pokemon"]

Shaped(route, d) == IF route = "type" THEN EntityShaped(d) ELSE CategoryShaped(d)

\* the members of a well-shaped category body, in upstream order
Members(d) == [i \in DOMAIN d["pokemon"] |-> d["pokemon"][i]["pokemon"]]

\* C11 (as claimed): a network error, a 200 body that is not JSON and a 200
\* JSON body without the expected shape all give the 500 outcome.
C11_TransportFaultIs500 ==
    Fetched =>
        LET a == last.calls[1].answer
        IN  (a.raises \/ (~a.raises /\ a.status_code = 200
                            /\ (~a.is_json \/ ~Shaped(last.route, a.data))))
                => last.status = 500

\* C12: on a non-empty list of named members /pokemon/longest returns, as it
\* is, the first member in upstream order among those of maximal name length
\* (so the result is a function of the list).
C12_LongestFirstOfMaximal ==
    (Fetched /\ last.route = "longest" /\ OkJson(last.calls[1].answer)
        /\ CategoryShaped(last.calls[1].answer.data)
        /\ Members(last.calls[1].answer.data) # <<>>)
        => LET m == Members(last.calls[1].answer.data)
           IN  /\ last.status = 200
               /\ \E i \in DOMAIN m :
                      /\ last.body = m[i]
                      /\ \A j \in DOMAIN m : Len(m[j]["name"]) <= Len(m[i]["name"])
                      /\ \A j \in 1..(i - 1) : Len(m[j]["name"]) < Len(m[i]["name"])

\* C12 witness: the tie [aa, bb] answered with aa.
C12_Witness ==
    /\ Fetched /\ last.route = "longest" /\ last.status = 200
    /\ OkJson(last.calls[1].answer)
    /\ CategoryShaped(last.calls[1].answer.data)
    /\ Len(Members(last.calls[1].answer.data)) = 2
    /\ Members(last.calls[1].answer.data)[1]["name"] = <<"a", "a">>
    /\ Members(last.calls[1].answer.data)[2]["name"] = <<"b", "b">>
    /\ last.body["name"] = <<"a", "a">>

\* C13: on a non-empty list of named members /pokemon/random returns, as it
\* is, an element of the list, and each element of that list is the result
\* for some draw of the random source.
C13_RandomIsMember ==
    (Fetched /\ last.route = "random" /\ OkJson(last.calls[1].answer)
        /\ CategoryShaped(last.calls[1].answer.data)
        /\ Members(last.calls[1].answer.data) # <<>>)
        => LET m == Members(last.calls[1].answer.data)
           IN  /\ last.status = 200
               /\ \E i \in DOMAIN m : last.body = m[i]
               /\ \A i \in DOMAIN m :
                      \E r \in 0..(MaxMembers - 1) :
                          random_pokemon_fetched(last.arg, last.calls[1].answer, r).body = m[i]

\* C13 witness: the second element of a two-element list is returned.
C13_Witness ==
    /\ Fetched /\ last.route = "random" /\ last.status = 200
    /\ OkJson(last.calls[1].answer)
    /\ CategoryShaped(last.calls[1].answer.data)
    /\ Len(Members(last.calls[1].answer.data)) = 2
    /\ Members(last.calls[1].answer.data)[1]["name"] = <<"c">>
    /\ last.body = Members(last.calls[1].answer.data)[2]
    /\ last.body["name"] = <<"b", "b">>

\* C14: on an upstream 200 with a well-shaped entity /pokemon/type returns the
\* name as requested and the labels in upstream order, one per upstream entry,
\* repeats included; the upstream was asked for the lower-cased name.
C14_TypesInUpstreamOrder ==
    (Fetched /\ last.route = "type")
        => /\ last.calls[1].path = "pokemon"
           /\ last.calls[1].key = lower(last.arg)
           /\ (OkJson(last.calls[1].answer) /\ EntityShaped(last.calls[1].answer.data))
                => LET t == last.calls[1].answer.data["types"]
                   IN  /\ last.status = 200
                       /\ DOMAIN last.body = {"name", "types"}
                       /\ last.body["name"] = last.arg
                       /\ Len(last.body["types"]) = Len(t)
                       /\ \A i \in DOMAIN t : last.body["types"][i] = t[i]["type"]["name"]

\* C14 witness: an upper-case name and a label given twice.
C14_Witness ==
    /\ Fetched /\ last.route = "type" /\ last.status = 200
    /\ last.arg = <<"A">> /\ last.calls[1].key = <<"a">>
    /\ last.body["types"] = << <<"f">>, <<"f">> >>

\* C15: a protected request is decided by the gate first, then by the
\* parameter check, then by the upstream: without an email claim it is
\* redirected and off the allow-list it gets 403 even when the parameter is
\* missing, and an upstream call is made only by an authorized request whose
\* parameter is present.
C15_GateThenParameterThenUpstream ==
    last.route \in Protected =>
        /\ ~HasEmailClaim => RedirectedToLogin
        /\ (HasEmailClaim /\ ~Authorized) => last.status = 403
        /\ (Authorized /\ ~ParamPresent) => last.status = 400
        /\ last.calls # <<>> => (Authorized /\ ParamPresent)
        /\ last.status \in {404, 500} => last.calls # <<>>

\* C15 witness: no session and no parameter, answered with the redirect.
C15_Witness ==
    /\ last.route = "type" /\ last.arg = None
    /\ session = EmptyDict /\ RedirectedToLogin

\* C16: a protected request makes exactly one upstream call when the gate
\* allows it and the parameter is present and none otherwise, and it ends in
\* one response among redirect, 200, 400, 403, 404 and 500.
C16_AtMostOneCall ==
    last.route \in Protected =>
        /\ Len(last.calls) = IF Authorized /\ ParamPresent THEN 1 ELSE 0
        /\ \/ RedirectedToLogin
           \/ last.status \in {200, 400, 403, 404, 500} /\ last.location = ""

\* C16 witness: the upstream call raised; it was made once and answered 500.
C16_Witness ==
    /\ last.route = "random" /\ Authorized /\ ParamPresent
    /\ Len(last.calls) = 1 /\ last.calls[1].answer.raises
    /\ last.status = 500

\* C17: the allow-list never changes, and a step changes the session only
\* when it is a callback or a logout.
C17_OnlyCallbackAndLogoutWrite ==
    [][/\ EMAILS_PERMITIDOS' = EMAILS_PERMITIDOS
       /\ last'.route \notin {"callback", "logout"} => session' = session]_vars

\* C17 witness: a dashboard visit that was refused with a user record in the
\* session, which is still the session the request arrived with.
C17_Witness ==
    /\ last.route = "dashboard" /\ last.status # 200
    /\ "user" \in DOMAIN session /\ session = last.before

\* C18 (as claimed): in every reachable state the dashboard serves the
\* session's claims exactly when the gate finds a user record with an email.
C18_ChecksAgree ==
    (login_required(session).status = 200) <=> HasEmailClaim

====
